---- MODULE Spec2Model ----
(***************************************************************************)
(* The interpreter core of rust-jvm (src/java/runtime/mod.rs): the class   *)
(* registry of Runtime, StackFrame, and the instruction loop of run_method *)
(* with its recursive invokestatic protocol.                               *)
(*                                                                         *)
(* run() is synchronous and recursive; the host call stack is the sequence *)
(* `frames` (one activation of run_method per element, the last one being  *)
(* the running one).  One step of the model is one iteration of the        *)
(* instruction loop, the return-type verification after the loop, the      *)
(* handling of a callee's result by its caller, or run()'s report.         *)
(***************************************************************************)
EXTENDS Integers, Sequences, FiniteSets, TLC

VARIABLES
    classes,          \* Runtime.classes: class name -> class descriptor
    class_index_map,  \* Runtime.class_index_map: class name -> (index -> name)
    main_class,       \* Runtime.main_class
    to_load,          \* class descriptors the host still passes to load_class
    loaded,           \* history: the descriptors passed to load_class so far
    phase,            \* position of the host: "loaded", "running", "done"
    frames,           \* activations of run_method, innermost last
    result,           \* value a finished run_method hands to its caller
    outcome           \* what run() reported (or a native fault)

vars == <<classes, class_index_map, main_class, to_load, loaded, phase,
          frames, result, outcome>>

-----------------------------------------------------------------------------
(* Bounds of the model *)

MaxDepth == 4         \* nesting of run_method activations explored
MaxPush == 3          \* push-constant instructions before the iadd (arith)
MaxLocalsLen == 4     \* length of the load/store bodies
MaxCallLen == 4       \* length of the invoking bodies
MaxReturnLen == 4     \* length of the bodies with returns
MaxLoads == 2         \* load_class calls after create
MaxEdgeLen == 3       \* length of the bodies with out-of-range operands
MaxDoublings == 49    \* doublings of a local (2^14 reaches 2^63)
MaxPoolLen == 3       \* constants after the first of a pool
MaxTermLen == 3       \* length of main with calls into call cycles

-----------------------------------------------------------------------------
(* i64: a 64-bit two's-complement integer as four 16-bit limbs, least      *)
(* significant first.                                                      *)

LimbBase == 65536

\* i64::from(value) of a decoded 8/16-bit operand or a literal
I64From(n) ==
    <<n % LimbBase,
      (n \div LimbBase) % LimbBase,
      IF n < 0 THEN LimbBase - 1 ELSE 0,
      IF n < 0 THEN LimbBase - 1 ELSE 0>>

I64Negative(a) == a[4] >= LimbBase \div 2

\* lh + rh modulo 2^64
I64WrappingAdd(a, b) ==
    LET s1 == a[1] + b[1]
        s2 == a[2] + b[2] + (s1 \div LimbBase)
        s3 == a[3] + b[3] + (s2 \div LimbBase)
        s4 == a[4] + b[4] + (s3 \div LimbBase)
    IN  <<s1 % LimbBase, s2 % LimbBase, s3 % LimbBase, s4 % LimbBase>>

\* lh + rh leaves the range of i64
I64AddOverflows(a, b) ==
    /\ I64Negative(a) = I64Negative(b)
    /\ I64Negative(I64WrappingAdd(a, b)) # I64Negative(a)

-----------------------------------------------------------------------------
(* Typed values.  LocalVariable and StackValue have the same three tags.   *)

ValueNone == [tag |-> "None", int |-> I64From(0)]
ValueNull == [tag |-> "Null", int |-> I64From(0)]
Integer(i) == [tag |-> "Integer", int |-> i]

\* Option<T>: None is <<>>, Some(x) is <<x>>
None == <<>>
Some(x) == <<x>>

-----------------------------------------------------------------------------
(* RuntimeError *)

GenericError(message, n) == [kind |-> "GenericError", message |-> message, index |-> n]
StackType(expected) == [kind |-> "StackType", message |-> expected, index |-> 0]
EmptyStack == [kind |-> "EmptyStack", message |-> "", index |-> 0]
MethodNotFound == [kind |-> "MethodNotFound", message |-> "", index |-> 0]
NoError == [kind |-> "NoError", message |-> "", index |-> 0]

\* Result<Option<StackValue>, RuntimeError>, and "nothing returned yet"
Ok(ret) == [kind |-> "Ok", value |-> ret, error |-> NoError]
Err(e) == [kind |-> "Err", value |-> None, error |-> e]
NoResult == [kind |-> "NoResult", value |-> None, error |-> NoError]

\* what run() did: nothing yet, the missing-main message, the printed
\* return value, the printed error, or a panic of the host
NoOutcome == [kind |-> "NoOutcome", value |-> None, error |-> NoError]
NoMainOutcome == [kind |-> "NoMain", value |-> None, error |-> NoError]
PanicOutcome == [kind |-> "Panic", value |-> None, error |-> NoError]
Reported(res) == [kind |-> res.kind, value |-> res.value, error |-> res.error]

-----------------------------------------------------------------------------
(* Class descriptors, as the decoder hands them over.                      *)

Ins(op, arg) == [op |-> op, arg |-> arg]

MethodRef(ci, nat) ==
    [kind |-> "MethodRef", class_index |-> ci, name_and_type_index |-> nat,
     name_index |-> 0, value |-> ""]
ClassRef(ni) ==
    [kind |-> "Class", class_index |-> 0, name_and_type_index |-> 0,
     name_index |-> ni, value |-> ""]
Utf8(s) ==
    [kind |-> "Utf8", class_index |-> 0, name_and_type_index |-> 0,
     name_index |-> 0, value |-> s]
NameAndType(ni) ==
    [kind |-> "NameAndType", class_index |-> 0, name_and_type_index |-> 0,
     name_index |-> ni, value |-> ""]

Method(name, arguments, return_type, max_locals, code) ==
    [name |-> name, arguments |-> arguments, return_type |-> return_type,
     max_locals |-> max_locals, code |-> code]

ClassFile(name, methods, constants) ==
    [name |-> name, methods |-> methods, constants |-> constants]

\* ClassFile::get_constant: the constant at a pool index, if any
get_constant(class, index) ==
    IF index \in DOMAIN class.constants THEN Some(class.constants[index]) ELSE None

\* ClassFile::get_method_from_nat: the method of the class that the
\* name-and-type constant at nat_index names, if any.  A &Method is the
\* position of the method in class.methods.
get_method_from_nat(class, nat_index) ==
    LET nat == get_constant(class, nat_index)
        name == IF nat # None /\ nat[1].kind = "NameAndType"
                THEN get_constant(class, nat[1].name_index) ELSE None
        hits == IF name # None /\ name[1].kind = "Utf8"
                THEN {i \in DOMAIN class.methods : class.methods[i].name = name[1].value}
                ELSE {}
    IN  IF hits = {} THEN None
        ELSE Some(CHOOSE i \in hits : \A j \in hits : i <= j)

-----------------------------------------------------------------------------
(* StackFrame.  Slot k of the code (0-based) is position k + 1 here; the   *)
(* top of the operand stack is the last element.                           *)

\* StackFrame::init_variables
init_variables(size) == [i \in 1..size |-> ValueNone]

\* StackFrame::create (the stack capacity is a hint without effect)
create_frame(var_count) ==
    [local_variables |-> init_variables(var_count), stack |-> <<>>]

\* StackFrame::for_method indexes local_variables[i] for every argument:
\* with more arguments than max_locals the index is out of bounds (panic)
for_method_panics(method, variables) == Len(variables) > method.max_locals

\* StackFrame::for_method, when it does not panic
for_method(method, variables) ==
    LET fresh == create_frame(method.max_locals)
    IN  [fresh EXCEPT !.local_variables =
            [i \in 1..Len(@) |-> IF i <= Len(variables) THEN variables[i] ELSE @[i]]]

\* StackFrame::get_variable
get_variable(frame, index) ==
    IF index + 1 \in DOMAIN frame.local_variables
    THEN Some(frame.local_variables[index + 1]) ELSE None

\* Vec::insert panics when index > len
set_variable_panics(frame, index) == index > Len(frame.local_variables)

\* set_variable with Vec::push in place of Vec::insert
set_variable_appends(frame, index, var) ==
    [frame EXCEPT !.local_variables = Append(@, var)]

\* StackFrame::set_variable: Vec::insert(index, var) shifts the elements at
\* index and after it one place to the right
set_variable(frame, index, var) ==
    [frame EXCEPT !.local_variables =
        SubSeq(@, 1, index) \o <<var>> \o SubSeq(@, index + 1, Len(@))]

\* StackFrame::pop_stack: the popped value (if any) and the frame after it
pop_stack_value(frame) ==
    IF frame.stack = <<>> THEN None ELSE Some(frame.stack[Len(frame.stack)])

pop_stack_frame(frame) ==
    IF frame.stack = <<>> THEN frame
    ELSE [frame EXCEPT !.stack = SubSeq(@, 1, Len(@) - 1)]

\* StackFrame::push_stack
push_stack(frame, value) == [frame EXCEPT !.stack = Append(@, value)]

-----------------------------------------------------------------------------
(* What one instruction does to the running activation: it goes on to the  *)
(* next instruction with a changed frame, returns an error, panics, or     *)
(* calls a method.                                                         *)

NoMethod == 0

GoOn(frame) ==
    [status |-> "Ok", frame |-> frame, error |-> NoError,
     method |-> NoMethod, arguments |-> <<>>]
Failed(frame, e) ==
    [status |-> "Err", frame |-> frame, error |-> e,
     method |-> NoMethod, arguments |-> <<>>]
Panicked(frame) ==
    [status |-> "Panic", frame |-> frame, error |-> NoError,
     method |-> NoMethod, arguments |-> <<>>]
Called(frame, method, arguments) ==
    [status |-> "Call", frame |-> frame, error |-> NoError,
     method |-> method, arguments |-> arguments]

\* Runtime::exec_istore
exec_istore(frame, offset) ==
    LET top == pop_stack_value(frame)
        popped == pop_stack_frame(frame)
    IN  IF top # None /\ top[1].tag = "Integer"
        THEN IF set_variable_panics(popped, offset) THEN Panicked(popped)
             ELSE GoOn(set_variable(popped, offset, Integer(top[1].int)))
        ELSE Failed(popped, GenericError("stack value at index is not an integer", offset))

\* Runtime::exec_iload
exec_iload(frame, offset) ==
    LET var == get_variable(frame, offset)
    IN  IF var = None
        THEN Failed(frame, GenericError("stack value at index is out of range", offset))
        ELSE IF var[1].tag = "Integer"
        THEN GoOn(push_stack(frame, Integer(var[1].int)))
        ELSE IF var[1].tag = "None"
        THEN Failed(frame, GenericError("local variable at index is not defined", offset))
        ELSE Failed(frame, GenericError("local variable at index is not an integer", offset))

PushOps == {"IConstm1", "IConst0", "IConst1", "IConst2", "IConst3", "IConst4",
            "IConst5", "BIPush", "SIPush"}
LoadOps == {"ILoad", "ILoad0", "ILoad1", "ILoad2", "ILoad3"}
StoreOps == {"IStore", "IStore0", "IStore1", "IStore2", "IStore3"}
KnownOps == PushOps \cup LoadOps \cup StoreOps
            \cup {"IAdd", "IfICmpGE", "IReturn", "Return", "InvokeStatic"}

\* the integer a push-constant instruction pushes
push_value(instruction) ==
    CASE instruction.op = "IConstm1" -> -1
      [] instruction.op = "IConst0" -> 0
      [] instruction.op = "IConst1" -> 1
      [] instruction.op = "IConst2" -> 2
      [] instruction.op = "IConst3" -> 3
      [] instruction.op = "IConst4" -> 4
      [] instruction.op = "IConst5" -> 5
      [] OTHER -> instruction.arg

exec_push(frame, instruction) ==
    GoOn(push_stack(frame, Integer(I64From(push_value(instruction)))))

\* the slot a load or store instruction addresses
slot_offset(instruction) ==
    CASE instruction.op \in {"ILoad0", "IStore0"} -> 0
      [] instruction.op \in {"ILoad1", "IStore1"} -> 1
      [] instruction.op \in {"ILoad2", "IStore2"} -> 2
      [] instruction.op \in {"ILoad3", "IStore3"} -> 3
      [] OTHER -> instruction.arg

\* exec_iadd with the arm for one operand missing: (Some(_), None) falls
\* through to the catch-all arm
exec_iadd_without_one_operand_arm(frame) ==
    LET lh == pop_stack_value(frame)
        after1 == pop_stack_frame(frame)
        rh == pop_stack_value(after1)
        after2 == pop_stack_frame(after1)
    IN  IF lh # None /\ rh # None
        THEN IF lh[1].tag = "Integer" /\ rh[1].tag = "Integer"
             THEN {GoOn(push_stack(after2, Integer(I64WrappingAdd(lh[1].int, rh[1].int))))}
                  \cup (IF I64AddOverflows(lh[1].int, rh[1].int)
                        THEN {Panicked(after2)} ELSE {})
             ELSE {Failed(after2, StackType("integer"))}
        ELSE IF lh = None
        THEN {Failed(after2, EmptyStack)}
        ELSE {Failed(after2, GenericError("IAdd", 0))}

\* the IAdd arm: both pops happen before the match; lh is the first pop.
\* lh + rh outside i64 panics in a build with overflow checks and wraps
\* in one without.
exec_iadd(frame) ==
    LET lh == pop_stack_value(frame)
        after1 == pop_stack_frame(frame)
        rh == pop_stack_value(after1)
        after2 == pop_stack_frame(after1)
    IN  IF lh # None /\ rh # None
        THEN IF lh[1].tag = "Integer" /\ rh[1].tag = "Integer"
             THEN {GoOn(push_stack(after2, Integer(I64WrappingAdd(lh[1].int, rh[1].int))))}
                  \cup (IF I64AddOverflows(lh[1].int, rh[1].int)
                        THEN {Panicked(after2)} ELSE {})
             ELSE {Failed(after2, StackType("integer"))}
        ELSE IF rh = None
        THEN {Failed(after2, EmptyStack)}
        ELSE {Failed(after2, GenericError("IAdd", 0))}

\* an IfICmpGE arm that restarts the stream
exec_if_icmpge_jumps_back(frame) == GoOn([frame EXCEPT !.pc = 0])

\* the IfICmpGE arm is empty
exec_if_icmpge(frame) == GoOn(frame)

\* the IReturn arm: the loop goes on after setting return_value
exec_ireturn(frame) ==
    LET top == pop_stack_value(frame)
        popped == pop_stack_frame(frame)
    IN  IF top = None THEN Failed(popped, EmptyStack)
        ELSE IF top[1].tag = "Integer"
        THEN GoOn([popped EXCEPT !.return_value = Some(Integer(top[1].int)),
                                  !.first_return = IF @ = None
                                                   THEN Some(Some(Integer(top[1].int)))
                                                   ELSE @])
        ELSE Failed(popped, StackType("Integer"))

\* the Return arm
exec_return(frame) ==
    GoOn([frame EXCEPT !.return_value = None,
                       !.first_return = IF @ = None THEN Some(None) ELSE @])

-----------------------------------------------------------------------------
(* Runtime: the registry *)

MapInsert(map, key, value) ==
    [k \in DOMAIN map \cup {key} |-> IF k = key THEN value ELSE map[k]]

\* build_class_index_map without the match on the kind of the constant at
\* the name index
build_class_index_map_any_name(class) ==
    LET method_refs == {i \in DOMAIN class.constants :
                            class.constants[i].kind = "MethodRef"}
        class_indexes == {class.constants[i].class_index : i \in method_refs}
        is_class(ci) == /\ get_constant(class, ci) # None
                        /\ get_constant(class, ci)[1].kind = "Class"
        name_of(ci) == get_constant(class, get_constant(class, ci)[1].name_index)
        resolved == {ci \in class_indexes : is_class(ci) /\ name_of(ci) # None}
    IN  [ci \in resolved |-> name_of(ci)[1].value]

\* Runtime::build_class_index_map
build_class_index_map(class) ==
    LET method_refs == {i \in DOMAIN class.constants :
                            class.constants[i].kind = "MethodRef"}
        class_indexes == {class.constants[i].class_index : i \in method_refs}
        is_class(ci) == /\ get_constant(class, ci) # None
                        /\ get_constant(class, ci)[1].kind = "Class"
        name_of(ci) == get_constant(class, get_constant(class, ci)[1].name_index)
        resolved == {ci \in class_indexes :
                        /\ is_class(ci)
                        /\ name_of(ci) # None
                        /\ name_of(ci)[1].kind = "Utf8"}
    IN  [ci \in resolved |-> name_of(ci)[1].value]

\* classes.insert replaced by an insert that keeps an entry already present
load_class_classes_keeps_first(map, class) ==
    IF class.name \in DOMAIN map THEN map ELSE MapInsert(map, class.name, class)

\* Runtime::load_class: the two inserts
load_class_index_map(map, class) ==
    MapInsert(map, class.name, build_class_index_map(class))

load_class_classes(map, class) == MapInsert(map, class.name, class)

\* find without the test of the name: the first method of the class
find_main_first(class) ==
    IF class.methods = <<>> THEN None ELSE Some(1)

\* the first method of the class named "main" (run's find), if any
find_main(class) ==
    LET hits == {i \in DOMAIN class.methods : class.methods[i].name = "main"}
    IN  IF hits = {} THEN None
        ELSE Some(CHOOSE i \in hits : \A j \in hits : i <= j)

-----------------------------------------------------------------------------
(* run_method *)

\* entry of run_method: the frame of the method and return_value = None.
\* first_return is history, not program state: the return_value fixed by
\* the first ireturn/return this activation executed, if any.
Activation(class, method, arguments) ==
    LET sf == for_method(class.methods[method], arguments)
    IN  [class |-> class.name, method |-> method, pc |-> 1,
         local_variables |-> sf.local_variables, stack |-> sf.stack,
         return_value |-> None, first_return |-> None]

\* the closure of the InvokeStatic arm that converts a popped stack value
\* to a LocalVariable
to_local(value) ==
    CASE value.tag = "Integer" -> Integer(value.int)
      [] value.tag = "None" -> ValueNone
      [] OTHER -> ValueNull

Reverse(s) == [i \in 1..Len(s) |-> s[Len(s) + 1 - i]]

\* the arguments of a call of arity k: k pops, converted, then reversed
collect_args(frame, k) ==
    Reverse([i \in 1..k |-> to_local(frame.stack[Len(frame.stack) + 1 - i])])

\* the InvokeStatic arm without the comparison of the resolved class name
\* with the current class
exec_invokestatic_any_class(frame, class, index_map, method_offset) ==
    LET constant == get_constant(class, method_offset)
    IN  IF constant = None \/ constant[1].kind # "MethodRef"
        THEN Failed(frame, GenericError("invalid method offset", method_offset))
        ELSE
        LET class_index == constant[1].class_index
            nat_index == constant[1].name_and_type_index
        IN  IF class_index \notin DOMAIN index_map
            THEN Failed(frame, GenericError("class not found", class_index))
            ELSE
            LET method == get_method_from_nat(class, nat_index)
            IN  IF method = None THEN Failed(frame, MethodNotFound)
                ELSE
                LET callee == class.methods[method[1]]
                    k == Len(callee.arguments)
                IN  IF Len(frame.stack) < k
                    THEN Failed([frame EXCEPT !.stack = <<>>], EmptyStack)
                    ELSE
                    LET popped == [frame EXCEPT !.stack = SubSeq(@, 1, Len(@) - k)]
                        args == collect_args(frame, k)
                    IN  IF for_method_panics(callee, args)
                        THEN Panicked(popped)
                        ELSE Called(popped, method[1], args)

\* the InvokeStatic arm, up to the recursive call
exec_invokestatic(frame, class, index_map, method_offset) ==
    LET constant == get_constant(class, method_offset)
    IN  IF constant = None \/ constant[1].kind # "MethodRef"
        THEN Failed(frame, GenericError("invalid method offset", method_offset))
        ELSE
        LET class_index == constant[1].class_index
            nat_index == constant[1].name_and_type_index
        IN  IF class_index \notin DOMAIN index_map
            THEN Failed(frame, GenericError("class not found", class_index))
            ELSE IF index_map[class_index] # class.name
            THEN GoOn(frame)
            ELSE
            LET method == get_method_from_nat(class, nat_index)
            IN  IF method = None THEN Failed(frame, MethodNotFound)
                ELSE
                LET callee == class.methods[method[1]]
                    k == Len(callee.arguments)
                IN  IF Len(frame.stack) < k
                    THEN Failed([frame EXCEPT !.stack = <<>>], EmptyStack)
                    ELSE
                    LET popped == [frame EXCEPT !.stack = SubSeq(@, 1, Len(@) - k)]
                        args == collect_args(frame, k)
                    IN  IF for_method_panics(callee, args)
                        THEN Panicked(popped)
                        ELSE Called(popped, method[1], args)

\* the match with an Err arm that goes on with the next instruction
invoke_result_continues(frame, res) ==
    IF res.kind = "Ok" /\ res.value # None THEN GoOn(push_stack(frame, res.value[1]))
    ELSE GoOn(frame)

\* the match with an Ok(Some(..)) arm that drops the value
invoke_result_drops_value(frame, res) ==
    IF res.kind = "Err" THEN Failed(frame, res.error) ELSE GoOn(frame)

\* the caller's match on the result of the recursive call
invoke_result(frame, res) ==
    IF res.kind = "Err" THEN Failed(frame, res.error)
    ELSE IF res.value # None THEN GoOn(push_stack(frame, res.value[1]))
    ELSE GoOn(frame)

\* run_method without the verification
verify_return_unchecked(method, return_value) == Ok(return_value)

\* the verification after the loop, and run_method's return value
verify_return(method, return_value) ==
    IF method.return_type = "Void"
    THEN IF return_value # None
         THEN Err(GenericError("invalid return type. expected void.", 0))
         ELSE Ok(return_value)
    ELSE IF method.return_type = "Integer"
    THEN IF return_value # None /\ return_value[1].tag \in {"Integer", "Null"}
         THEN Ok(return_value)
         ELSE Err(GenericError("invalid return type. expected integer.", 0))
    ELSE Ok(return_value)

-----------------------------------------------------------------------------
(* The steps *)

Top == frames[Len(frames)]

\* the method the running activation executes
MethodOf(frame) == classes[frame.class].methods[frame.method]

TopMethod == MethodOf(Top)

\* the loop of run_method is about to execute an instruction
InLoop ==
    /\ phase = "running"
    /\ frames # <<>>
    /\ result = NoResult
    /\ Top.pc <= Len(TopMethod.code)

Instruction == TopMethod.code[Top.pc]

Fetched(ops) == InLoop /\ Instruction.op \in ops

\* the effect of an outcome on the activations: the loop goes on with the
\* next instruction, run_method returns the error to its caller, run_method
\* is entered for the callee, or the host panics
Apply(r) ==
    /\ CASE r.status = "Ok" ->
              /\ frames' = [frames EXCEPT ![Len(frames)] = [r.frame EXCEPT !.pc = @ + 1]]
              /\ result' = NoResult
              /\ UNCHANGED <<outcome, phase>>
         [] r.status = "Err" ->
              /\ frames' = SubSeq(frames, 1, Len(frames) - 1)
              /\ result' = Err(r.error)
              /\ UNCHANGED <<outcome, phase>>
         [] r.status = "Call" ->
              /\ Len(frames) < MaxDepth
              /\ frames' = Append([frames EXCEPT ![Len(frames)] = r.frame],
                                  Activation(classes[Top.class], r.method, r.arguments))
              /\ result' = NoResult
              /\ UNCHANGED <<outcome, phase>>
         [] OTHER ->
              /\ frames' = <<>>
              /\ outcome' = PanicOutcome
              /\ phase' = "done"
              /\ result' = NoResult
    /\ UNCHANGED <<classes, class_index_map, main_class, to_load, loaded>>

\* Runtime::load_class, called by the host before run()
LoadClass ==
    /\ phase = "loaded"
    /\ to_load # <<>>
    /\ class_index_map' = load_class_index_map(class_index_map, Head(to_load))
    /\ classes' = load_class_classes(classes, Head(to_load))
    /\ loaded' = Append(loaded, Head(to_load))
    /\ to_load' = Tail(to_load)
    /\ UNCHANGED <<main_class, phase, frames, result, outcome>>

\* Runtime::run up to the call of run_method
Run ==
    /\ phase = "loaded"
    /\ to_load = <<>>
    /\ IF main_class \notin DOMAIN classes
       THEN /\ outcome' = PanicOutcome
            /\ phase' = "done"
            /\ UNCHANGED frames
       ELSE LET class == classes[main_class]
                method == find_main(class)
            IN  IF method = None
                THEN /\ outcome' = NoMainOutcome
                     /\ phase' = "done"
                     /\ UNCHANGED frames
                ELSE /\ frames' = <<Activation(class, method[1], <<>>)>>
                     /\ phase' = "running"
                     /\ UNCHANGED outcome
    /\ UNCHANGED <<classes, class_index_map, main_class, to_load, loaded, result>>

ExecPushConst == Fetched(PushOps) /\ \E r \in {exec_push(Top, Instruction)} : Apply(r)

ExecILoad ==
    /\ Fetched(LoadOps)
    /\ \E r \in {exec_iload(Top, slot_offset(Instruction))} : Apply(r)

ExecIStore ==
    /\ Fetched(StoreOps)
    /\ \E r \in {exec_istore(Top, slot_offset(Instruction))} : Apply(r)

ExecIAdd == Fetched({"IAdd"}) /\ \E r \in exec_iadd(Top) : Apply(r)

ExecIfICmpGE == Fetched({"IfICmpGE"}) /\ \E r \in {exec_if_icmpge(Top)} : Apply(r)

ExecIReturn == Fetched({"IReturn"}) /\ \E r \in {exec_ireturn(Top)} : Apply(r)

ExecReturn == Fetched({"Return"}) /\ \E r \in {exec_return(Top)} : Apply(r)

ExecInvokeStatic ==
    /\ Fetched({"InvokeStatic"})
    /\ \E r \in {exec_invokestatic(Top, classes[Top.class],
                                   class_index_map[Top.class], Instruction.arg)} :
          Apply(r)

\* the `_` arm of the match on the instruction
ExecUnknown ==
    /\ InLoop
    /\ Instruction.op \notin KnownOps
    /\ \E r \in {Failed(Top, GenericError("unknown instruction", 0))} : Apply(r)

\* the instruction stream is exhausted: verification, then run_method returns
VerifyReturn ==
    /\ phase = "running"
    /\ frames # <<>>
    /\ result = NoResult
    /\ Top.pc > Len(TopMethod.code)
    /\ result' = verify_return(TopMethod, Top.return_value)
    /\ frames' = SubSeq(frames, 1, Len(frames) - 1)
    /\ UNCHANGED <<classes, class_index_map, main_class, to_load, loaded,
                   phase, outcome>>

\* run_method returned into the InvokeStatic arm of its caller
InvokeResult ==
    /\ phase = "running"
    /\ frames # <<>>
    /\ result # NoResult
    /\ \E r \in {invoke_result(Top, result)} : Apply(r)

\* run_method returned into run(), which prints the value or the error
Report ==
    /\ phase = "running"
    /\ frames = <<>>
    /\ result # NoResult
    /\ outcome' = Reported(result)
    /\ phase' = "done"
    /\ result' = NoResult
    /\ UNCHANGED <<classes, class_index_map, main_class, to_load, loaded, frames>>

Next ==
    \/ LoadClass
    \/ Run
    \/ ExecPushConst
    \/ ExecILoad
    \/ ExecIStore
    \/ ExecIAdd
    \/ ExecIfICmpGE
    \/ ExecIReturn
    \/ ExecReturn
    \/ ExecInvokeStatic
    \/ ExecUnknown
    \/ VerifyReturn
    \/ InvokeResult
    \/ Report

\* Runtime::create(entry) followed by the host's plan of load_class calls
InitWith(entries, loads) ==
    /\ \E entry \in entries :
        /\ main_class = entry.name
        /\ class_index_map = load_class_index_map(<<>>, entry)
        /\ classes = load_class_classes(<<>>, entry)
        /\ loaded = <<entry>>
    /\ to_load \in loads
    /\ phase = "loaded"
    /\ frames = <<>>
    /\ result = NoResult
    /\ outcome = NoOutcome

-----------------------------------------------------------------------------
(* Class descriptors of the model.  Every class has the constant pool      *)
(*   1: Class(2)   2: Utf8(class name)                                     *)
(*   3k: Utf8(name of method k)  3k+1: NameAndType(3k)                     *)
(*   3k+2: MethodRef(1, 3k+1)                     for its k-th method      *)
(* followed by a reference to a class "Other", a method reference whose    *)
(* class index is not a class constant, and one whose name-and-type index  *)
(* is not a name-and-type constant.                                        *)

Pool(name, methods) ==
    LET n == 3 * Len(methods) + 2
    IN  [i \in 1..(n + 5) |->
            CASE i = 1 -> ClassRef(2)
              [] i = 2 -> Utf8(name)
              [] i = n + 1 -> ClassRef(n + 2)
              [] i = n + 2 -> Utf8("Other")
              [] i = n + 3 -> MethodRef(n + 1, 4)
              [] i = n + 4 -> MethodRef(2, 4)
              [] i = n + 5 -> MethodRef(1, 2)
              [] i > 2 /\ i <= n /\ i % 3 = 0 -> Utf8(methods[i \div 3].name)
              [] i > 2 /\ i <= n /\ i % 3 = 1 -> NameAndType(i - 1)
              [] OTHER -> MethodRef(1, i - 1)]

Class(name, methods) == ClassFile(name, methods, Pool(name, methods))

I(op) == Ins(op, 0)
OneInt == <<"Integer">>
TwoInts == <<"Integer", "Integer">>

\* the static methods every class of the model declares after its first
\* ("outer" calls "scratch" and then "undefined", through the method
\* references at the indexes 17 and 20)
Library ==
    << Method("add1", OneInt, "Integer", 1,
              <<I("ILoad0"), I("IConst1"), I("IAdd"), I("IReturn")>>),
       Method("seven", <<>>, "Integer", 0,
              <<Ins("BIPush", 7), I("IReturn")>>),
       Method("second", TwoInts, "Integer", 2,
              <<I("ILoad1"), I("IReturn")>>),
       Method("scratch", OneInt, "Void", 1,
              <<I("IConst5"), I("IStore0"), I("IConst3"), I("Return")>>),
       Method("undefined", <<>>, "Integer", 1,
              <<I("ILoad0"), I("IReturn")>>),
       Method("outer", <<>>, "Integer", 1,
              <<I("IConst2"), I("IStore0"), I("IConst1"), Ins("InvokeStatic", 17),
                Ins("InvokeStatic", 20), I("ILoad0"), I("IReturn")>>),
       Method("narrow", TwoInts, "Void", 1,
              <<I("Return")>>) >>

\* the constant-pool index of the method reference to the library method
Invoke(name) ==
    LET k == CHOOSE k \in DOMAIN Library : Library[k].name = name
    IN  Ins("InvokeStatic", 3 * (k + 1) + 2)

MainClass(return_type, max_locals, code) ==
    Class("Main", <<Method("main", <<>>, return_type, max_locals, code)>> \o Library)

\* an entry class that declares nothing but main
MainOnly(return_type, max_locals, code) ==
    Class("Main", <<Method("main", <<>>, return_type, max_locals, code)>>)

\* the scenarios of the specification's section 8 and one body per
\* remaining kind of instruction
ScenarioClasses ==
    { MainClass("Integer", 0, <<I("IConst2"), I("IConst3"), I("IAdd"), I("IReturn")>>),
      MainClass("Integer", 1, <<I("ILoad0"), I("IReturn")>>),
      Class("Main", Library),
      MainClass("Integer", 0, <<I("IConst4"), Invoke("add1"), I("IReturn")>>),
      MainClass("Void", 1, <<I("IConst1"), I("IStore0"), I("IfICmpGE"), I("Return")>>),
      MainClass("Void", 0, <<I("Nop")>>),
      MainOnly("Integer", 2, <<I("IConst1"), I("IStore0"), Ins("SIPush", 300),
                               I("IStore0"), I("ILoad1"), I("IReturn")>>) }

SeqsUpTo(S, n) == UNION {[1..k -> S] : k \in 0..n}

\* descriptors for load_class: two versions of "Other" and two of "Main",
\* one of them without a main method
LoadPool ==
    { Class("Other", Library),
      Class("Other", <<>>),
      Class("Main", Library),
      MainOnly("Integer", 0, <<I("IConst1"), I("IReturn")>>) }

\* entry classes of either name
RegistryClasses ==
    ScenarioClasses
    \cup {Class("Other", <<Method("main", <<>>, "Integer", 0,
                                  <<I("IConst1"), I("IReturn")>>)>>)}

Init == InitWith(RegistryClasses, SeqsUpTo(LoadPool, MaxLoads))

Spec == Init /\ [][Next]_vars

-----------------------------------------------------------------------------
(* Families of entry classes *)

ReturnTypes == {"Void", "Integer"}

\* every push-constant instruction, with the extreme operands of the two
\* with an immediate
PushInstructions ==
    {I(op) : op \in PushOps \ {"BIPush", "SIPush"}}
    \cup {Ins("BIPush", -128), Ins("BIPush", 127),
          Ins("SIPush", -32768), Ins("SIPush", 32767)}

\* P <= MaxPush push-constant instructions followed by one iadd
ArithClasses ==
    {MainOnly(rt, 0, pushes \o <<I("IAdd")>>) :
        rt \in ReturnTypes, pushes \in SeqsUpTo(PushInstructions, MaxPush)}

InitArith ==
    \/ InitWith(ScenarioClasses, {<<>>, <<Class("Other", Library)>>})
    \/ InitWith(ArithClasses, {<<>>})

SpecArith == InitArith /\ [][Next]_vars

\* pushes, stores and loads of the slots 0 and 1, in both encodings
LocalsInstructions ==
    {I("IConst1"), Ins("SIPush", 300), I("IStore0"), Ins("IStore", 1),
     I("ILoad0"), Ins("ILoad", 1)}

LocalsClasses ==
    {MainOnly("Void", max_locals, body) :
        max_locals \in 1..2, body \in SeqsUpTo(LocalsInstructions, MaxLocalsLen)}

InitLocals ==
    \/ InitWith(ScenarioClasses, {<<>>, <<Class("Other", Library)>>})
    \/ InitWith(LocalsClasses, {<<>>})

SpecLocals == InitLocals /\ [][Next]_vars

\* pushes and calls of library methods of every arity
CallInstructions ==
    {I("IConst1"), I("IConst2"), Invoke("seven"), Invoke("add1"),
     Invoke("second"), Invoke("scratch"), Invoke("outer"), Invoke("narrow")}

CallClasses ==
    {MainClass(rt, 0, body) :
        rt \in {"Integer"}, body \in SeqsUpTo(CallInstructions, MaxCallLen)}

InitCall ==
    \/ InitWith(ScenarioClasses, {<<>>, <<Class("Other", Library)>>})
    \/ InitWith(CallClasses, {<<>>})

SpecCall == InitCall /\ [][Next]_vars

\* returns in any position, with a push, a store and a call around them
ReturnInstructions ==
    {I("IConst1"), I("IConst2"), I("IReturn"), I("Return"), I("IStore0"),
     Invoke("seven")}

\* "Long" stands for the declared return types other than void and int
DeclaredTypes == {"Void", "Integer", "Long"}

ReturnClasses ==
    {MainClass(rt, 1, body) :
        rt \in DeclaredTypes, body \in SeqsUpTo(ReturnInstructions, MaxReturnLen)}

InitReturn ==
    \/ InitWith(ScenarioClasses, {<<>>, <<Class("Other", Library)>>})
    \/ InitWith(ReturnClasses, {<<>>})

SpecReturn == InitReturn /\ [][Next]_vars

\* the method references at the end of the pool of an entry class that
\* declares main only: 3 names a method of class "Other", 4 has a class
\* index that is not a class constant, 5 names no method of the class
EdgeInvoke(k) == Ins("InvokeStatic", 3 * 1 + 2 + k)

\* slots outside a frame of one slot, the branch, and the method references
\* that do not lead to a method of the current class
EdgeInstructions ==
    {I("IConst1"), I("IConst2"), I("IStore0"), I("IStore2"), I("ILoad1"),
     I("IfICmpGE"), EdgeInvoke(3), EdgeInvoke(4), EdgeInvoke(5)}

EdgeClasses ==
    {MainOnly("Void", 1, body) : body \in SeqsUpTo(EdgeInstructions, MaxEdgeLen)}

InitEdge ==
    \/ InitWith(ScenarioClasses, {<<>>, <<Class("Other", Library)>>})
    \/ InitWith(EdgeClasses, {<<>>, <<Class("Other", Library)>>})

SpecEdge == InitEdge /\ [][Next]_vars

\* sipush start; istore_0 followed by n times iload_0; iload_0; iadd;
\* istore_0, which doubles the local n times
DoublingBody(start, n) ==
    [i \in 1..(2 + 4 * n) |->
        CASE i = 1 -> Ins("SIPush", start)
          [] i = 2 -> I("IStore0")
          [] i > 2 /\ (i - 3) % 4 \in {0, 1} -> I("ILoad0")
          [] i > 2 /\ (i - 3) % 4 = 2 -> I("IAdd")
          [] OTHER -> I("IStore0")]

\* 2^14 doubled 49 times is 2^63, -2^15 doubled 49 times is -2^64
OverflowClasses ==
    {MainOnly("Void", 1, DoublingBody(start, MaxDoublings)) :
        start \in {16384, -32768, 3}}

InitOverflow ==
    \/ InitWith(ScenarioClasses, {<<>>, <<Class("Other", Library)>>})
    \/ InitWith(OverflowClasses, {<<>>})

SpecOverflow == InitOverflow /\ [][Next]_vars

\* constants of every kind build_class_index_map looks at, with indexes
\* inside and outside the pool
PoolConstants ==
    {MethodRef(ci, 1) : ci \in 1..4} \cup {ClassRef(ni) : ni \in 1..4}
    \cup {Utf8("Main"), Utf8("Other")}

\* entry classes with an arbitrary pool behind a first method reference,
\* which main invokes
PoolClasses ==
    {ClassFile("Main",
               <<Method("main", <<>>, "Void", 0, <<Ins("InvokeStatic", 1)>>)>>,
               <<MethodRef(ci, 1)>> \o rest) :
        ci \in 1..4, rest \in SeqsUpTo(PoolConstants, MaxPoolLen)}

InitPool ==
    \/ InitWith(ScenarioClasses, {<<>>, <<Class("Other", Library)>>})
    \/ InitWith(PoolClasses, {<<>>})

SpecPool == InitPool /\ [][Next]_vars

\* the instruction that invokes the k-th method of a class through its own
\* method reference
InvokeMethod(k) == Ins("InvokeStatic", 3 * k + 2)

\* callees without a cycle ("leaf", and "mid", which calls it) and with one
\* ("again" calls itself, "ping" and "pong" call each other)
TermMethods ==
    << Method("leaf", <<>>, "Integer", 0, <<I("IConst1"), I("IReturn")>>),
       Method("mid", <<>>, "Integer", 0, <<InvokeMethod(2), I("IReturn")>>),
       Method("again", <<>>, "Integer", 0, <<InvokeMethod(4), I("IReturn")>>),
       Method("ping", <<>>, "Void", 0, <<InvokeMethod(6), I("Return")>>),
       Method("pong", <<>>, "Void", 0, <<InvokeMethod(5), I("Return")>>) >>

TermInstructions ==
    {I("IfICmpGE"), InvokeMethod(2), InvokeMethod(3), InvokeMethod(4),
     InvokeMethod(5)}

\* bodies of calls, and one body that ends in a panic of the host (a store
\* beyond the frame)
TermClasses ==
    {Class("Main", <<Method("main", <<>>, "Void", 0, body)>> \o TermMethods) :
        body \in SeqsUpTo(TermInstructions, MaxTermLen)}
    \cup {MainOnly("Void", 0, <<I("IConst1"), I("IStore2")>>)}

InitTerm ==
    \/ InitWith(ScenarioClasses, {<<>>, <<Class("Other", Library)>>})
    \/ InitWith(TermClasses, {<<>>})

\* run() is one thread that executes its next step whenever there is one
SpecTerm == InitTerm /\ [][Next]_vars /\ WF_vars(Next)

-----------------------------------------------------------------------------
(* Properties *)

\* the running activation is about to execute an instruction and does
ExecutesInstruction == InLoop /\ vars' # vars

\* C1: once an activation has executed an ireturn or a return, its loop
\* ends: it executes no further instruction, and its return_value stays the
\* one that first return fixed.
C1_ReturnEndsLoop ==
    [][\A d \in DOMAIN frames :
          frames[d].first_return # None =>
            /\ ~(d = Len(frames) /\ ExecutesInstruction)
            /\ frames[d].return_value = frames[d].first_return[1]]_vars

\* the entry method as run() finds it
MainCode ==
    LET methods == classes[main_class].methods
    IN  methods[CHOOSE i \in DOMAIN methods : methods[i].name = "main"].code

HasMain == \E i \in DOMAIN classes[main_class].methods :
              classes[main_class].methods[i].name = "main"

\* the integer a push-constant instruction denotes (JVM instruction set)
Denotes(instruction) ==
    CASE instruction.op \in {"BIPush", "SIPush"} -> instruction.arg
      [] instruction.op = "IConstm1" -> -1
      [] instruction.op = "IConst0" -> 0
      [] instruction.op = "IConst1" -> 1
      [] instruction.op = "IConst2" -> 2
      [] instruction.op = "IConst3" -> 3
      [] instruction.op = "IConst4" -> 4
      [] instruction.op = "IConst5" -> 5

IsPushesThenIAdd(code) ==
    /\ code # <<>>
    /\ code[Len(code)].op = "IAdd"
    /\ \A i \in 1..(Len(code) - 1) : code[i].op \in PushOps

\* the operand stack P pushes and one iadd must leave, for P >= 2
StackAfterIAdd(code) ==
    LET P == Len(code) - 1
    IN  [i \in 1..(P - 1) |->
            IF i < P - 1 THEN Integer(I64From(Denotes(code[i])))
            ELSE Integer(I64From(Denotes(code[P - 1]) + Denotes(code[P])))]

\* C2: a body of P push-constant instructions and one iadd fails with
\* EmptyStack iff P < 2; otherwise the iadd replaces the two topmost values
\* by one Integer, their sum, above the P - 2 unchanged lower entries.
C2_PushesThenIAdd ==
    (HasMain /\ IsPushesThenIAdd(MainCode)) =>
        LET P == Len(MainCode) - 1
        IN  /\ phase = "done" =>
                  /\ outcome.kind \in {"Ok", "Err"}
                  /\ (outcome.kind = "Err" /\ outcome.error = EmptyStack) <=> P < 2
            /\ (frames # <<>> /\ Top.pc = P + 2) =>
                  /\ P >= 2
                  /\ Top.stack = StackAfterIAdd(MainCode)

\* iconst_5; bipush -128; sipush 32767; iadd has left 5 and 32639
C2_Witness ==
    /\ HasMain
    /\ MainCode = <<I("IConst5"), Ins("BIPush", -128), Ins("SIPush", 32767), I("IAdd")>>
    /\ frames # <<>>
    /\ Top.pc = 5
    /\ Top.stack = <<Integer(<<5, 0, 0, 0>>), Integer(<<32639, 0, 0, 0>>)>>

\* the slot a load or store instruction names (JVM instruction set)
SlotOf(instruction) ==
    CASE instruction.op \in {"ILoad", "IStore"} -> instruction.arg
      [] instruction.op \in {"ILoad0", "IStore0"} -> 0
      [] instruction.op \in {"ILoad1", "IStore1"} -> 1
      [] instruction.op \in {"ILoad2", "IStore2"} -> 2
      [] instruction.op \in {"ILoad3", "IStore3"} -> 3

IsLoad(instruction) ==
    instruction.op \in {"ILoad", "ILoad0", "ILoad1", "ILoad2", "ILoad3"}

IsStore(instruction) ==
    instruction.op \in {"IStore", "IStore0", "IStore1", "IStore2", "IStore3"}

\* the loop runs over the stream once, so the instructions an activation has
\* executed are those before its pc: the slots it has stored into
StoredSlots(frame) ==
    {SlotOf(MethodOf(frame).code[i]) :
        i \in {j \in 1..(frame.pc - 1) : IsStore(MethodOf(frame).code[j])}}

\* the slots the arguments of the activation seeded
SeededSlots(frame) == 0..(Len(MethodOf(frame).arguments) - 1)

\* the running activation is about to load a slot of its frame that no store
\* of this activation targeted and no argument seeded
LoadsNeverStoredSlot ==
    /\ InLoop
    /\ IsLoad(Instruction)
    /\ SlotOf(Instruction) < TopMethod.max_locals
    /\ SlotOf(Instruction) \notin StoredSlots(Top) \cup SeededSlots(Top)

\* the step ends the running activation with error e and pushes nothing
FailsWith(e) ==
    /\ frames' = SubSeq(frames, 1, Len(frames) - 1)
    /\ result' = Err(e)

\* the step executes the instruction of the running activation successfully
Succeeds ==
    /\ Len(frames') = Len(frames)
    /\ frames'[Len(frames)].pc = Top.pc + 1
    /\ result' = NoResult
    /\ outcome' = outcome

\* C3: loading a slot that was never the target of a store in this frame and
\* was not seeded by an argument fails with the "not defined" error and
\* pushes nothing, whatever stores to other slots preceded it.
C3_NeverStoredLoadFails ==
    [][LoadsNeverStoredSlot =>
          FailsWith(GenericError("local variable at index is not defined",
                                 SlotOf(Instruction)))]_vars

\* C4: a store of Integer(v) into slot i < max_locals succeeds and leaves
\* Integer(v) in slot i, and a load of slot i that follows it succeeds and
\* pushes exactly that Integer(v).
C4_StoreLoadRoundTrip ==
    [][/\ ( /\ InLoop
            /\ IsStore(Instruction)
            /\ SlotOf(Instruction) < TopMethod.max_locals
            /\ Top.stack # <<>>
            /\ Top.stack[Len(Top.stack)].tag = "Integer" )
          => /\ Succeeds
             /\ frames'[Len(frames)].stack = SubSeq(Top.stack, 1, Len(Top.stack) - 1)
             /\ frames'[Len(frames)].local_variables[SlotOf(Instruction) + 1]
                    = Top.stack[Len(Top.stack)]
       /\ ( /\ InLoop
            /\ IsLoad(Instruction)
            /\ SlotOf(Instruction) < TopMethod.max_locals
            /\ Top.pc > 1
            /\ IsStore(TopMethod.code[Top.pc - 1])
            /\ SlotOf(TopMethod.code[Top.pc - 1]) = SlotOf(Instruction) )
          => /\ Succeeds
             /\ frames'[Len(frames)].stack
                    = Append(Top.stack, Top.local_variables[SlotOf(Instruction) + 1])
             /\ frames'[Len(frames)].local_variables = Top.local_variables]_vars

\* iconst_1; sipush 300; istore 1; iload 1 has put 300 back above the 1
C4_Witness ==
    /\ HasMain
    /\ MainCode = <<I("IConst1"), Ins("SIPush", 300), Ins("IStore", 1), Ins("ILoad", 1)>>
    /\ frames # <<>>
    /\ Top.pc = 5
    /\ Top.stack = <<Integer(<<1, 0, 0, 0>>), Integer(<<300, 0, 0, 0>>)>>

\* the method of the current class the invokestatic at hand resolves to
InvokeTarget ==
    LET class == classes[Top.class]
        constant == get_constant(class, Instruction.arg)
    IN  IF /\ constant # None
           /\ constant[1].kind = "MethodRef"
           /\ constant[1].class_index \in DOMAIN class_index_map[Top.class]
           /\ class_index_map[Top.class][constant[1].class_index] = class.name
        THEN get_method_from_nat(class, constant[1].name_and_type_index)
        ELSE None

InvokesSameClass ==
    /\ InLoop
    /\ Instruction.op = "InvokeStatic"
    /\ InvokeTarget # None

\* the step enters the method at position m of the current class with the K
\* topmost values of the caller's stack as slots 0..K-1, deepest first, and
\* takes exactly those K values off the caller's stack
EntersWithArguments(m, K) ==
    /\ Len(frames') = Len(frames) + 1
    /\ frames'[Len(frames)].stack = SubSeq(Top.stack, 1, Len(Top.stack) - K)
    /\ frames'[Len(frames) + 1].class = Top.class
    /\ frames'[Len(frames) + 1].method = m
    /\ frames'[Len(frames) + 1].pc = 1
    /\ Len(frames'[Len(frames) + 1].local_variables) >= K
    /\ \A j \in 1..K :
          frames'[Len(frames) + 1].local_variables[j]
              = Top.stack[Len(Top.stack) - K + j]

\* C5: an invokestatic of a method of arity K takes exactly the K topmost
\* values off the caller's stack and seeds slot j of the callee's frame with
\* the j-th of them, deepest first; with fewer than K values on the stack it
\* fails with EmptyStack and the callee does not run.
C5_InvokeConsumesArguments ==
    [][InvokesSameClass =>
          LET K == Len(classes[Top.class].methods[InvokeTarget[1]].arguments)
          IN  IF Len(Top.stack) < K
              THEN FailsWith(EmptyStack)
              ELSE EntersWithArguments(InvokeTarget[1], K)]_vars

\* what of C5 the code does: as C5 for a callee that declares at least K
\* slots, and a panic of for_method for one that declares fewer
C5_UnlessTooFewSlots ==
    [][InvokesSameClass =>
          LET callee == classes[Top.class].methods[InvokeTarget[1]]
              K == Len(callee.arguments)
          IN  IF Len(Top.stack) < K
              THEN FailsWith(EmptyStack)
              ELSE IF callee.max_locals < K
              THEN outcome' = PanicOutcome /\ frames' = <<>>
              ELSE EntersWithArguments(InvokeTarget[1], K)]_vars

\* C6: run_method returns Ok(Some(value)) for no method declared void and
\* Ok(None) for no method declared to return an integer, whether a return
\* executed or the stream ran out; such a mismatch is returned as an error,
\* and what it returns otherwise is the return_value the body produced.
C6_ReturnMatchesDeclaredType ==
    [][(/\ phase = "running"
        /\ frames # <<>>
        /\ result = NoResult
        /\ Top.pc > Len(TopMethod.code))
       => /\ frames' = SubSeq(frames, 1, Len(frames) - 1)
          /\ result'.kind \in {"Ok", "Err"}
          /\ result'.kind = "Ok" => result'.value = Top.return_value
          /\ TopMethod.return_type = "Void" =>
                IF Top.return_value = None
                THEN result'.kind = "Ok" /\ result'.value = None
                ELSE result'.kind = "Err"
          /\ TopMethod.return_type = "Integer" =>
                IF Top.return_value = None
                THEN result'.kind = "Err"
                ELSE result'.kind = "Ok" /\ result'.value # None]_vars

\* main declared void with the body iconst_1; ireturn: run reported the
\* mismatch as an error
C6_Witness ==
    /\ HasMain
    /\ MainCode = <<I("IConst1"), I("IReturn")>>
    /\ classes[main_class].methods[1].return_type = "Void"
    /\ phase = "done"
    /\ outcome = Reported(Err(GenericError("invalid return type. expected void.", 0)))

\* C7: the first failure ends the failing activation at once; while it is
\* pending every step ends the next enclosing activation and passes the same
\* error value on, without executing anything; run() reports that error and
\* nothing runs afterwards.
C7_FailurePropagates ==
    [][/\ (result = NoResult /\ result'.kind = "Err") =>
              /\ frames # <<>>
              /\ frames' = SubSeq(frames, 1, Len(frames) - 1)
       /\ (result.kind = "Err" /\ frames # <<>>) =>
              /\ frames' = SubSeq(frames, 1, Len(frames) - 1)
              /\ result' = result
              /\ outcome' = outcome
       /\ (result.kind = "Err" /\ frames = <<>>) =>
              /\ outcome'.kind = "Err"
              /\ outcome'.error = result.error
              /\ outcome'.value = None
              /\ phase' = "done"
              /\ frames' = <<>>
       /\ phase # "done"]_vars

\* iconst_1; invokestatic outer; iconst_2: the load of the undefined slot in
\* "undefined", called by "outer", called by main, is what run() reported
C7_Witness ==
    /\ HasMain
    /\ MainCode = <<I("IConst1"), Invoke("outer"), I("IConst2")>>
    /\ phase = "done"
    /\ outcome = Reported(Err(GenericError("local variable at index is not defined", 0)))

\* C8: run() on an entry class without a method named main reports the
\* missing main and ends with no frame created and no instruction executed;
\* otherwise it enters main with no arguments: every slot of the one frame
\* is uninitialized and its stack is empty.
C8_RunEntersMainOrReports ==
    [][/\ (phase = "loaded" /\ to_load = <<>>) =>
              IF HasMain
              THEN /\ phase' = "running"
                   /\ outcome' = NoOutcome
                   /\ Len(frames') = 1
                   /\ frames'[1].class = main_class
                   /\ classes[main_class].methods[frames'[1].method].name = "main"
                   /\ frames'[1].pc = 1
                   /\ frames'[1].stack = <<>>
                   /\ Len(frames'[1].local_variables)
                          = classes[main_class].methods[frames'[1].method].max_locals
                   /\ \A i \in DOMAIN frames'[1].local_variables :
                          frames'[1].local_variables[i].tag = "None"
              ELSE /\ phase' = "done"
                   /\ outcome'.kind = "NoMain"
                   /\ frames' = <<>>
                   /\ result' = NoResult
       /\ phase # "done"]_vars

\* the entry class was re-loaded without a main method, and run() reported it
C8_Witness ==
    /\ Len(loaded) > 1
    /\ \E i \in DOMAIN loaded[1].methods : loaded[1].methods[i].name = "main"
    /\ ~HasMain
    /\ phase = "done"
    /\ outcome.kind = "NoMain"
    /\ frames = <<>>

\* C9: a call changes the caller's frame only by taking the K arguments off
\* its stack; nothing a callee does changes a frame below it; a successful
\* return changes the caller's frame only by pushing the callee's value, if
\* it returned one.  main = iconst_4; invokestatic add1; ireturn returns 5.
C9_CallerFramePreserved ==
    [][/\ (InLoop /\ Len(frames') = Len(frames) + 1) =>
              LET callee == classes[frames'[Len(frames') ].class]
                                .methods[frames'[Len(frames')].method]
                  K == Len(callee.arguments)
              IN  /\ Len(Top.stack) >= K
                  /\ frames'[Len(frames)] =
                        [Top EXCEPT !.stack = SubSeq(@, 1, Len(@) - K)]
       /\ \A d \in 1..(Len(frames) - 1) :
              d \in DOMAIN frames' => frames'[d] = frames[d]
       /\ (phase = "running" /\ frames # <<>> /\ result.kind = "Ok") =>
              /\ result' = NoResult
              /\ frames' = [frames EXCEPT ![Len(frames)] =
                    [Top EXCEPT !.pc = @ + 1,
                                !.stack = IF result.value = None THEN @
                                          ELSE Append(@, result.value[1])]]
       /\ (/\ phase = "running" /\ frames = <<>> /\ HasMain
           /\ MainCode = <<I("IConst4"), Invoke("add1"), I("IReturn")>>) =>
              result = Ok(Some(Integer(<<5, 0, 0, 0>>)))]_vars

\* "outer" (called by main) stored 2 in its slot 0 and called scratch(1),
\* which stored 5 in its own slot 0 and left 3 on its own stack: back in
\* "outer", slot 0 still holds 2 and the argument is gone from the stack
C9_Witness ==
    /\ Len(frames) = 2
    /\ MethodOf(Top).name = "outer"
    /\ Top.pc = 5
    /\ Top.local_variables[1] = Integer(<<2, 0, 0, 0>>)
    /\ Top.stack = <<>>
    /\ result = NoResult

\* the last descriptor loaded under the name
LatestLoad(name) ==
    loaded[CHOOSE i \in DOMAIN loaded :
              /\ loaded[i].name = name
              /\ \A j \in DOMAIN loaded : loaded[j].name = name => j <= i]

\* C10: after create and any load_class calls, classes and class_index_map
\* have the same keys, the names of the descriptors loaded so far (none is
\* removed); the entry class's name is among them; each name maps to the
\* descriptor of its latest load and to the symbol table built from it.
C10_RegistryInvariant ==
    /\ DOMAIN classes = DOMAIN class_index_map
    /\ DOMAIN classes = {loaded[i].name : i \in DOMAIN loaded}
    /\ main_class = loaded[1].name
    /\ main_class \in DOMAIN classes
    /\ \A name \in DOMAIN classes :
          /\ classes[name] = LatestLoad(name)
          /\ class_index_map[name] = build_class_index_map(LatestLoad(name))

\* "Other" was loaded twice with different descriptors
C10_Witness ==
    /\ Len(loaded) = 3
    /\ loaded[2].name = "Other"
    /\ loaded[3].name = "Other"
    /\ loaded[2] # loaded[3]
    /\ class_index_map["Other"] # build_class_index_map(loaded[2])
    /\ classes["Other"] = loaded[3]

\* C11: a successful store into slot i changes slot i only: the frame keeps
\* max_locals slots and every other slot keeps its value and position.
C11_StoreChangesOneSlot ==
    [][(InLoop /\ IsStore(Instruction) /\ Succeeds) =>
          /\ Len(frames'[Len(frames)].local_variables) = TopMethod.max_locals
          /\ \A j \in 0..(TopMethod.max_locals - 1) :
                j # SlotOf(Instruction) =>
                    frames'[Len(frames)].local_variables[j + 1]
                        = Top.local_variables[j + 1]]_vars

\* the running activation is about to access a slot outside its frame: a
\* load, or a store with an Integer on top of the stack
AccessesSlotOutOfRange ==
    /\ InLoop
    /\ \/ IsLoad(Instruction)
       \/ /\ IsStore(Instruction)
          /\ Top.stack # <<>>
          /\ Top.stack[Len(Top.stack)].tag = "Integer"
    /\ SlotOf(Instruction) >= TopMethod.max_locals

\* C12: a load or a store of a slot outside the frame's slot range returns
\* the "out of range" error through the failure path; it is never a native
\* fault.
C12_SlotAccessBoundsChecked ==
    [][AccessesSlotOutOfRange =>
          /\ outcome'.kind # "Panic"
          /\ FailsWith(GenericError("stack value at index is out of range",
                                    SlotOf(Instruction)))]_vars

\* C13: a store on an empty operand stack fails with EmptyStack, and a store
\* with a value on top that is not an Integer fails with StackType.
C13_StoreFailureCauses ==
    [][(InLoop /\ IsStore(Instruction)) =>
          /\ Top.stack = <<>> => FailsWith(EmptyStack)
          /\ (Top.stack # <<>> /\ Top.stack[Len(Top.stack)].tag # "Integer") =>
                /\ frames' = SubSeq(frames, 1, Len(frames) - 1)
                /\ result'.kind = "Err"
                /\ result'.error.kind = "StackType"]_vars

\* C14: iadd on two Integer operands always succeeds and replaces them by
\* their sum modulo 2^64, also when the sum is outside the range of i64; it
\* never fails and never faults.
C14_IAddWraps ==
    [][(/\ InLoop
        /\ Instruction.op = "IAdd"
        /\ Len(Top.stack) >= 2
        /\ Top.stack[Len(Top.stack)].tag = "Integer"
        /\ Top.stack[Len(Top.stack) - 1].tag = "Integer")
       => /\ Succeeds
          /\ frames'[Len(frames)].stack =
                Append(SubSeq(Top.stack, 1, Len(Top.stack) - 2),
                       Integer(I64WrappingAdd(Top.stack[Len(Top.stack)].int,
                                              Top.stack[Len(Top.stack) - 1].int)))]_vars

\* C15: if_icmpge takes two integers off the operand stack and goes on with
\* the branch target or with the next instruction; in either case the stack
\* is two entries shorter afterwards.
C15_IfICmpGEPopsTwo ==
    [][(/\ InLoop
        /\ Instruction.op = "IfICmpGE"
        /\ Len(Top.stack) >= 2
        /\ Top.stack[Len(Top.stack)].tag = "Integer"
        /\ Top.stack[Len(Top.stack) - 1].tag = "Integer")
       => /\ Len(frames') = Len(frames)
          /\ frames'[Len(frames)].stack = SubSeq(Top.stack, 1, Len(Top.stack) - 2)]_vars

\* C16: whenever the invocation protocol creates a frame, the target method
\* declares at least as many slots as it has arguments: copying the K
\* arguments into the slots 0..K-1 is never an out-of-range write.
C16_ArgumentsFitFrame ==
    [][InvokesSameClass =>
          LET callee == classes[Top.class].methods[InvokeTarget[1]]
              K == Len(callee.arguments)
          IN  Len(Top.stack) >= K =>
                /\ K <= callee.max_locals
                /\ outcome'.kind # "Panic"]_vars

\* the class index c of some method reference of the pool leads, through a
\* class constant at c and a UTF-8 constant at its name index, to name
ChainResolves(constants, c, name) ==
    /\ \E i \in DOMAIN constants :
          constants[i].kind = "MethodRef" /\ constants[i].class_index = c
    /\ c \in DOMAIN constants
    /\ constants[c].kind = "Class"
    /\ constants[c].name_index \in DOMAIN constants
    /\ constants[constants[c].name_index].kind = "Utf8"
    /\ constants[constants[c].name_index].value = name

\* the running activation is about to invoke through a method reference
\* whose class index has no entry in the symbol table of its class
InvokesBrokenReference ==
    /\ InLoop
    /\ Instruction.op = "InvokeStatic"
    /\ Instruction.arg \in DOMAIN classes[Top.class].constants
    /\ classes[Top.class].constants[Instruction.arg].kind = "MethodRef"
    /\ \A name \in {"Main", "Other"} :
          ~ChainResolves(classes[Top.class].constants,
                         classes[Top.class].constants[Instruction.arg].class_index,
                         name)

\* C17: the symbol table of a class has the entry c -> name exactly when
\* some method reference has class index c, the constant at c is a class
\* reference and the constant at its name index is the UTF-8 string name.  A
\* broken chain gives no entry and loading succeeds all the same; the
\* "class not found" error is returned when, and only when, an invokestatic
\* through such a reference is executed.
C17_SymbolTable ==
    /\ [](\A cn \in DOMAIN class_index_map :
            /\ DOMAIN class_index_map[cn] \subseteq DOMAIN classes[cn].constants
            /\ \A c \in DOMAIN classes[cn].constants, name \in {"", "Main", "Other"} :
                  (c \in DOMAIN class_index_map[cn] /\ class_index_map[cn][c] = name)
                      <=> ChainResolves(classes[cn].constants, c, name))
    /\ [][/\ InvokesBrokenReference =>
                FailsWith(GenericError("class not found",
                    classes[Top.class].constants[Instruction.arg].class_index))
          /\ (result'.kind = "Err" /\ result'.error.message = "class not found"
                /\ result # result') => InvokesBrokenReference]_vars

\* the pool has a method reference that resolves to "Other" and one with a
\* broken chain; the class was loaded, and main's invokestatic through the
\* broken one was reported as "class not found"
C17_Witness ==
    /\ classes[main_class].constants
          = <<MethodRef(1, 1), MethodRef(3, 1), ClassRef(4), Utf8("Other")>>
    /\ DOMAIN class_index_map[main_class] = {3}
    /\ class_index_map[main_class][3] = "Other"
    /\ phase = "done"
    /\ outcome = Reported(Err(GenericError("class not found", 1)))

\* the running activation is about to invoke through a method reference
\* that the pool of its class resolves to the name of another class
InvokesOtherClass ==
    /\ InLoop
    /\ Instruction.op = "InvokeStatic"
    /\ Instruction.arg \in DOMAIN classes[Top.class].constants
    /\ classes[Top.class].constants[Instruction.arg].kind = "MethodRef"
    /\ \E name \in {"Main", "Other"} \ {Top.class} :
          ChainResolves(classes[Top.class].constants,
                        classes[Top.class].constants[Instruction.arg].class_index,
                        name)

\* C18: an invokestatic whose method reference resolves to the name of a
\* class other than the current one does nothing: it pops nothing, pushes
\* nothing, runs no callee and raises no error; the next instruction follows
\* with the frame unchanged.
C18_OtherClassInvokeIsNoOp ==
    [][InvokesOtherClass =>
          /\ frames' = [frames EXCEPT ![Len(frames)] = [Top EXCEPT !.pc = @ + 1]]
          /\ result' = NoResult
          /\ outcome' = outcome
          /\ phase' = phase]_vars

\* with class "Other" loaded, iconst_1; iconst_2; invokestatic Other.m has
\* left both values on the stack and main goes on
C18_Witness ==
    /\ "Other" \in DOMAIN classes
    /\ HasMain
    /\ MainCode = <<I("IConst1"), I("IConst2"), EdgeInvoke(3)>>
    /\ Len(frames) = 1
    /\ Top.pc = 4
    /\ Top.stack = <<Integer(<<1, 0, 0, 0>>), Integer(<<2, 0, 0, 0>>)>>
    /\ result = NoResult

\* the method of the class an instruction calls: the target of an
\* invokestatic whose method reference resolves, in the class itself, to a
\* method of the class (a set with that method, or the empty set)
StaticCallee(class, ins) ==
    IF /\ ins.op = "InvokeStatic"
       /\ ins.arg \in DOMAIN class.constants
       /\ class.constants[ins.arg].kind = "MethodRef"
       /\ ChainResolves(class.constants,
                        class.constants[ins.arg].class_index, class.name)
    THEN UNION {{target[k] : k \in DOMAIN target} :
                  target \in {get_method_from_nat(class,
                                  class.constants[ins.arg].name_and_type_index)}}
    ELSE {}

\* the static call graph of a class: m calls t when an instruction of the
\* stream of m calls t
CallEdges(class) ==
    UNION {UNION {{<<m, t>> : t \in StaticCallee(class, class.methods[m].code[i])} :
                    i \in DOMAIN class.methods[m].code} :
              m \in DOMAIN class.methods}

RECURSIVE CalledAfter(_, _, _)
\* the methods at the end of a chain of exactly k calls that starts at from
CalledAfter(E, from, k) ==
    IF k = 0 THEN {from}
    ELSE UNION {{e[2] : e \in {x \in E : x[1] \in before}} :
                    before \in {CalledAfter(E, from, k - 1)}}

\* no method that main reaches in the call graph of the entry class lies on
\* a cycle of calls: no chain of calls from main is as long as the number of
\* methods
AcyclicFromMain ==
    /\ HasMain
    /\ LET class == classes[main_class]
           main == CHOOSE i \in DOMAIN class.methods : class.methods[i].name = "main"
       IN  \E E \in {CallEdges(class)} :
              CalledAfter(E, main, Len(class.methods)) = {}

====
